---- MODULE Spec2Model ----
(***************************************************************************)
(* Catalog assembly pipeline of pdf_catalog_merger.py and                  *)
(* fixed_catalog_merger.py (cover resolution, source collection, merge,    *)
(* temp-directory lifecycle), the layout calculators and page renderers of *)
(* jpg_to_pdf_converter.py and image_to_pdf_converter.py, and the loop of  *)
(* ImageToPDFConverter.create_pdf.                                         *)
(*                                                                         *)
(* File names are sequences of one-character strings so that lower(),      *)
(* suffix and stem are computed the way str.lower() and pathlib compute    *)
(* them.  The file system is case-sensitive (distinct names are distinct   *)
(* files).  Layout arithmetic is exact rational arithmetic on integers.    *)
(***************************************************************************)
EXTENDS Integers, Sequences, FiniteSets, TLC

VARIABLES
    variant,        \* "pdf" = PDFCatalogMerger, "fixed" = FixedCatalogMerger
    sortBy,         \* sort_by argument: "name" or "date"
    dirFiles,       \* input directory: name -> file record
    tempExists,     \* whether directory/_temp_pdfs_fixed exists
    tempFiles,      \* content of the temp directory: name -> file record
    clock,          \* logical time of the next file-system write (st_ctime)
    pc,             \* position inside main / create_catalog / merge_pdfs
    cover_path,     \* create_catalog local
    back_cover_path,\* create_catalog local
    inner_pages,    \* create_catalog local (result of get_all_files)
    failedConv,     \* number of "Failed to convert" lines of this run
    pdf_order,      \* create_catalog local, the list handed to merge_pdfs
    idx,            \* merge_pdfs: number of items of pdf_paths already processed
    itemState,      \* merge_pdfs: per-item outcome and len(reader.pages)
    writer,         \* merge_pdfs: writer.pages as <<item index, page index>>
    writeLog,       \* outcome of each attempt of this run to write the destination
    result,         \* return value of create_catalog: "none", "True", "False"
    exitCode,       \* exit status of main: -1 while running
    runs,           \* number of runs started so far
    planned,        \* number of times the operator invokes main on the directory
    faults,         \* I/O faults the environment may still inject
    dir0,           \* input directory as it was before the current run
    hist,           \* per finished run: <<pdf_order, page count of the output>>
    layout,         \* layout calculator: inputs and last computed placement
    render,         \* page renderer: one image, the faults it meets and the outcome
    grid            \* create_pdf: the canvas and the loop over image_paths

vars == <<variant, sortBy, dirFiles, tempExists, tempFiles, clock, pc, cover_path,
          back_cover_path, inner_pages, failedConv, pdf_order, idx, itemState,
          writer, writeLog, result, exitCode, runs, planned, faults, dir0, hist, layout, render, grid>>

-----------------------------------------------------------------------------
(* Bounds of the model *)

MaxFiles == 2       \* largest number of entries of a generated input directory
MaxRuns == 2        \* runs of main on the same directory
MaxFaults == 1      \* I/O faults (failed cover synthesis, failed output write) per behaviour
ScenarioFaults == 2 \* the same, for the runs on the scenario directories
MaxDim == 6         \* largest image width / height in pixels
MaxBox == 5         \* largest max_width / max_height handed to ImageToPDFConverter
MaxMargin == 3      \* largest margin, in half inches

-----------------------------------------------------------------------------
(* Characters and names *)

\* The characters that occur in the modelled names, in code-point order.
Alphabet == <<".", "A", "C", "D", "F", "G", "J", "P", "_",
              "a", "b", "c", "d", "e", "f", "g", "i", "j", "k", "l", "m", "n", "o",
              "p", "r", "s", "t", "u", "v", "x", "z">>

OrdTable ==
    [c \in {Alphabet[i] : i \in 1..Len(Alphabet)} |->
        CHOOSE i \in 1..Len(Alphabet) : Alphabet[i] = c]

\* ord() up to an order-preserving renumbering
Ord(c) == OrdTable[c]

\* str.lower() on one character
LowerChar(c) ==
    CASE c = "A" -> "a" [] c = "C" -> "c" [] c = "D" -> "d" [] c = "F" -> "f"
      [] c = "G" -> "g" [] c = "J" -> "j" [] c = "P" -> "p" [] OTHER -> c

\* str.lower()
Lower(s) == [i \in 1..Len(s) |-> LowerChar(s[i])]

\* str.rfind('.') : 0 when there is no dot (1-based position otherwise)
LastDot(s) ==
    IF \E i \in 1..Len(s) : s[i] = "."
    THEN CHOOSE i \in 1..Len(s) : s[i] = "." /\ \A j \in (i+1)..Len(s) : s[j] # "."
    ELSE 0

\* pathlib PurePath.suffix: the part from the last dot on, unless the dot is the
\* first or the last character of the name
Suffix(s) ==
    LET i == LastDot(s) IN
    IF i > 1 /\ i < Len(s) THEN SubSeq(s, i, Len(s)) ELSE <<>>

\* pathlib PurePath.stem
Stem(s) ==
    LET i == LastDot(s) IN
    IF i > 1 /\ i < Len(s) THEN SubSeq(s, 1, i - 1) ELSE s

\* Python's str < str : lexicographic by code point
StrLess(s, t) ==
    LET n == IF Len(s) < Len(t) THEN Len(s) ELSE Len(t)
        D == {i \in 1..n : s[i] # t[i]}
    IN IF D = {} THEN Len(s) < Len(t)
       ELSE LET i == CHOOSE i \in D : \A j \in D : i <= j IN Ord(s[i]) < Ord(t[i])

DotPdf == <<".", "p", "d", "f">>
DotJpg == <<".", "j", "p", "g">>
DotJpeg == <<".", "j", "p", "e", "g">>

\* self.cover_filename, self.back_cover_filename
cover_filename == <<"c", "o", "v", "e", "r">> \o DotPdf
back_cover_filename == <<"b", "a", "c", "k", "_", "c", "o", "v", "e", "r">> \o DotPdf

\* name of the temporary conversion directory
temp_dir_name == <<"_", "t", "e", "m", "p", "_", "p", "d", "f", "s", "_",
                   "f", "i", "x", "e", "d">>

\* defaults of the --output argument of the two programs
catalog_name == <<"c", "a", "t", "a", "l", "o", "g">> \o DotPdf
fixed_catalog_name == <<"f", "i", "x", "e", "d", "_">> \o catalog_name

-----------------------------------------------------------------------------
(* Paths and file records *)

None == [loc |-> "none", name |-> <<>>]
DirPath(n) == [loc |-> "dir", name |-> n]
TempPath(n) == [loc |-> "temp", name |-> n]

\* A file record.  kind: "image", "pdf", "other", "dir".
\*   image: ok = the image decodes and converts to a page document
\*   pdf:   ok = PdfReader can open it; np = number of pages of its page tree
\*          (with ok false: the pages a standalone re-serialization of the
\*          damaged document would recover, 0 if it is beyond repair);
\*          bad = first page whose add_page raises (0: none)
\*   origin: "user", "synth" (synthesized cover), "rendered", "catalog"
File(kind, ok, np, bad, origin, ctime) ==
    [kind |-> kind, ok |-> ok, np |-> np, bad |-> bad, origin |-> origin, ctime |-> ctime]

\* The file a path names, or NoFile
NoFile == File("none", FALSE, 0, 0, "none", 0)
Lookup(dirF, tmpF, p) ==
    IF p.loc = "dir" /\ p.name \in DOMAIN dirF THEN dirF[p.name]
    ELSE IF p.loc = "temp" /\ p.name \in DOMAIN tmpF THEN tmpF[p.name]
    ELSE NoFile

\* Path.is_file()
IsFile(f) == f.kind \in {"image", "pdf", "other"}

EmptyDir == [n \in {} |-> NoFile]

-----------------------------------------------------------------------------
(* Input directories *)

Nm(stem, ext) == stem \o ext
DotTxt == <<".", "t", "x", "t">>

\* Candidate directory entries; the creation time of an entry is its position.
Entries == <<
    [name |-> Nm(<<"b">>, DotPdf),  kind |-> "pdf",   ok |-> TRUE,  np |-> 2, bad |-> 0],
    [name |-> Nm(<<"a">>, DotJpg),  kind |-> "image", ok |-> TRUE,  np |-> 0, bad |-> 0],
    [name |-> cover_filename,       kind |-> "pdf",   ok |-> TRUE,  np |-> 1, bad |-> 0],
    [name |-> Nm(<<"x">>, DotPdf),  kind |-> "pdf",   ok |-> FALSE, np |-> 0, bad |-> 0],
    [name |-> Nm(<<"a">>, DotJpeg), kind |-> "image", ok |-> TRUE,  np |-> 0, bad |-> 0],
    [name |-> Nm(<<"e">>, DotPdf),  kind |-> "pdf",   ok |-> TRUE,  np |-> 0, bad |-> 0],
    [name |-> Nm(<<"c">>, DotJpg),  kind |-> "image", ok |-> FALSE, np |-> 0, bad |-> 0],
    [name |-> Nm(<<"p">>, DotPdf),  kind |-> "pdf",   ok |-> TRUE,  np |-> 2, bad |-> 2],
    [name |-> <<"C", "o", "v", "e", "r", ".", "P", "D", "F">>,
                                    kind |-> "pdf",   ok |-> TRUE,  np |-> 1, bad |-> 0],
    [name |-> Nm(<<"n">>, DotTxt),  kind |-> "other", ok |-> FALSE, np |-> 0, bad |-> 0]
>>

\* The directory made of the entries numbered in S (names pairwise distinct)
DirOf(S) ==
    [n \in {Entries[i].name : i \in S} |->
        LET i == CHOOSE i \in S : Entries[i].name = n
        IN File(Entries[i].kind, Entries[i].ok, Entries[i].np, Entries[i].bad, "user", i)]

EntrySets ==
    {S \in SUBSET (1..Len(Entries)) :
        /\ Cardinality(S) <= MaxFiles
        /\ \A i, j \in S : i # j => Entries[i].name # Entries[j].name}

\* Five valid images, one corrupt image, no cover files
PartialDir ==
    LET img(n, ok, t) == Nm(<<n>>, DotJpg) :> File("image", ok, 0, 0, "user", t)
    IN img("a", TRUE, 1) @@ img("b", TRUE, 2) @@ img("c", FALSE, 3)
       @@ img("d", TRUE, 4) @@ img("e", TRUE, 5) @@ img("f", TRUE, 6)

\* Only corrupt or unreadable files, no cover files
CorruptImageDir == Nm(<<"c">>, DotJpg) :> File("image", FALSE, 0, 0, "user", 1)
CorruptDir ==
    CorruptImageDir @@ (Nm(<<"x">>, DotPdf) :> File("pdf", FALSE, 0, 0, "user", 2))

\* One document that breaks while its pages are appended, no cover files
BrokenPageDir == Nm(<<"p">>, DotPdf) :> File("pdf", TRUE, 2, 2, "user", 1)

\* Unreadable cover files around an unreadable document
UnreadableDir ==
    (cover_filename :> File("pdf", FALSE, 0, 0, "user", 1))
    @@ (back_cover_filename :> File("pdf", FALSE, 0, 0, "user", 2))
    @@ (Nm(<<"x">>, DotPdf) :> File("pdf", FALSE, 0, 0, "user", 3))

\* One damaged two-page document that PdfReader opens only after it has been
\* re-serialized, no cover files
RepairableDir == Nm(<<"r">>, DotPdf) :> File("pdf", FALSE, 2, 0, "user", 1)

ScenarioDirs ==
    {PartialDir, CorruptImageDir, CorruptDir, BrokenPageDir, UnreadableDir, RepairableDir}

\* First logical time after every creation time of an initial directory
FirstClock == Len(Entries) + 1

-----------------------------------------------------------------------------
(* Sorting: list.sort(key=...) is a stable sort in non-decreasing key order *)

\* The sort key of a path: lambda x: x.name.lower()  /  lambda x: x.stat().st_ctime
SortKey(mode, dirF, tmpF, p) ==
    IF mode = "name" THEN Lower(p.name) ELSE Lookup(dirF, tmpF, p).ctime

\* key1 <= key2 for two keys of the same mode
KeyLeq(mode, k1, k2) == IF mode = "name" THEN ~StrLess(k2, k1) ELSE k1 <= k2

\* Insert the keyed element x behind every element whose key is not greater
RECURSIVE InsertSorted(_, _, _)
InsertSorted(x, s, mode) ==
    IF s = <<>> THEN <<x>>
    ELSE IF KeyLeq(mode, Head(s).key, x.key)
         THEN <<Head(s)>> \o InsertSorted(x, Tail(s), mode)
    ELSE <<x>> \o s

\* list.sort(key=...): a stable sort of the elements by their keys, each key
\* computed once
RECURSIVE StableSort(_, _)
StableSort(s, mode) ==
    IF s = <<>> THEN <<>>
    ELSE InsertSorted(s[Len(s)], StableSort(SubSeq(s, 1, Len(s) - 1), mode), mode)

\* Faulty variant: the list is sorted by name whatever the mode
SortFilesByName(all_files, mode, dirF, tmpF) ==
    LET keyed == [i \in 1..Len(all_files) |->
                     [key |-> SortKey("name", dirF, tmpF, all_files[i]),
                      path |-> all_files[i]]]
        sorted == StableSort(keyed, "name")
    IN [i \in 1..Len(sorted) |-> sorted[i].path]

\* all_files.sort(...) at the end of get_all_files / get_all_files_fixed
SortFiles(all_files, mode, dirF, tmpF) ==
    IF mode \in {"name", "date"}
    THEN LET keyed == [i \in 1..Len(all_files) |->
                          [key |-> SortKey(mode, dirF, tmpF, all_files[i]),
                           path |-> all_files[i]]]
             sorted == StableSort(keyed, mode)
         IN [i \in 1..Len(sorted) |-> sorted[i].path]
    ELSE all_files

\* The orders in which directory.iterdir() can yield the names of S
RECURSIVE Orders(_)
Orders(S) ==
    IF S = {} THEN {<<>>}
    ELSE UNION {{<<x>> \o o : o \in Orders(S \ {x})} : x \in S}

-----------------------------------------------------------------------------
(* Cover Resolver *)

\* create_simple_cover: canvas.save() writes a one-page text document at the path,
\* or an exception is caught and nothing is written.  A path that names a
\* directory cannot be written.
CanWrite(dirF, n) == n \notin DOMAIN dirF \/ IsFile(dirF[n])
CreateSimpleCover(dirF, n, t) == (n :> File("pdf", TRUE, 1, 0, "synth", t)) @@ dirF

\* The names the loop of PDFCatalogMerger.find_cover_files can leave in
\* cover_path (the last match in enumeration order)
CoverMatches(dirF) ==
    {n \in DOMAIN dirF : /\ IsFile(dirF[n])
                         /\ Lower(Suffix(n)) = DotPdf
                         /\ Lower(n) = Lower(cover_filename)}

\* ... and in back_cover_path (the elif branch)
BackCoverMatches(dirF) ==
    {n \in DOMAIN dirF : /\ IsFile(dirF[n])
                         /\ Lower(Suffix(n)) = DotPdf
                         /\ Lower(n) # Lower(cover_filename)
                         /\ Lower(n) = Lower(back_cover_filename)}

\* Existing covers as the two programs look for them: the set of paths the
\* search can return for the convention name conv ({} : not found)
FoundCover(v, dirF, conv) ==
    IF v = "pdf"
    THEN IF conv = cover_filename THEN CoverMatches(dirF) ELSE BackCoverMatches(dirF)
    ELSE IF conv \in DOMAIN dirF THEN {conv} ELSE {}     \* Path.exists()

\* One cover of find_cover_files / find_or_create_cover_files: found is the
\* existing file picked (None: not found), synthOk whether create_simple_cover
\* succeeds.  Result: <<path, directory, clock>>
ResolveCover(dirF, t, conv, found, synthOk) ==
    IF found # None THEN <<found, dirF, t>>
    ELSE IF synthOk /\ CanWrite(dirF, conv)
         THEN <<DirPath(conv), CreateSimpleCover(dirF, conv, t), t + 1>>
    ELSE <<None, dirF, t>>

PickFound(S) == IF S = {} THEN {None} ELSE {DirPath(n) : n \in S}

-----------------------------------------------------------------------------
(* Page Renderer, as far as the pipeline sees it *)

\* Faulty variant: a corrupt image is not noticed
ConvertOkUnchecked(f) == f.kind = "image"

\* convert_jpg_to_pdf_fixed: True and a one-page document at output_path when
\* the image decodes; False (nothing written) otherwise
ConvertOk(f) == f.kind = "image" /\ f.ok

\* the one-page document c.save() leaves at output_path
RenderedPage(t) == File("pdf", TRUE, 1, 0, "rendered", t)

-----------------------------------------------------------------------------
(* Source Collector *)

\* Faulty variant: the cover names are not skipped
CollectOneWithCovers(acc, dirF, n) ==
    LET f == dirF[n]
        suffix_lower == Lower(Suffix(n))
    IN
    IF ~IsFile(f) THEN acc
    ELSE IF suffix_lower \in {DotJpg, DotJpeg}
    THEN LET out == Stem(n) \o DotPdf IN
         IF ConvertOk(f)
         THEN [acc EXCEPT !.all_files = Append(@, TempPath(out)),
                          !.temp = (out :> RenderedPage(acc.clock)) @@ @,
                          !.clock = @ + 1]
         ELSE [acc EXCEPT !.failed = @ + 1]
    ELSE IF suffix_lower = DotPdf
    THEN [acc EXCEPT !.all_files = Append(@, DirPath(n))]
    ELSE acc

\* One iteration of the loop of get_all_files on the entry named n.
\* acc = [all_files, temp, clock, failed]
CollectOne(acc, dirF, n) ==
    LET f == dirF[n]
        name_lower == Lower(n)
        suffix_lower == Lower(Suffix(n))
    IN
    IF ~IsFile(f) THEN acc
    ELSE IF name_lower = Lower(cover_filename) \/ name_lower = Lower(back_cover_filename)
    THEN acc
    ELSE IF suffix_lower \in {DotJpg, DotJpeg}
    THEN LET out == Stem(n) \o DotPdf IN
         IF ConvertOk(f)
         THEN [acc EXCEPT !.all_files = Append(@, TempPath(out)),
                          !.temp = (out :> RenderedPage(acc.clock)) @@ @,
                          !.clock = @ + 1]
         ELSE [acc EXCEPT !.failed = @ + 1]
    ELSE IF suffix_lower = DotPdf
    THEN [acc EXCEPT !.all_files = Append(@, DirPath(n))]
    ELSE acc

\* What directory.iterdir() lists once temp_dir.mkdir() has run: the entries of
\* the directory and the temp directory itself
Listing(dirF) == (temp_dir_name :> File("dir", FALSE, 0, 0, "temp", 0)) @@ dirF

RECURSIVE CollectAll(_, _, _)

\* Faulty variant: the loop ends at the first conversion that fails
CollectAllUntilFailure(acc, dirF, order) ==
    IF order = <<>> THEN acc
    ELSE LET r == CollectOne(acc, dirF, Head(order)) IN
         IF r.failed > acc.failed THEN r ELSE CollectAll(r, dirF, Tail(order))

\* the loop "for file in directory.iterdir()" of get_all_files
CollectAll(acc, dirF, order) ==
    IF order = <<>> THEN acc
    ELSE CollectAll(CollectOne(acc, dirF, Head(order)), dirF, Tail(order))

\* get_all_files / get_all_files_fixed for one enumeration order.
\* Result: [all_files (sorted), temp, clock, failed]
GetAllFilesResult(dirF, tmpF, t, mode, order) ==
    LET acc == CollectAll([all_files |-> <<>>, temp |-> tmpF, clock |-> t, failed |-> 0],
                          Listing(dirF), order)
    IN [acc EXCEPT !.all_files = SortFiles(@, mode, dirF, acc.temp)]

\* The entries that put a path into all_files.  Every other entry leaves
\* all_files and the temp directory as they are, wherever the enumeration
\* yields it, so the enumeration orders are taken up to the position of those.
Contributing(ls) ==
    {n \in DOMAIN ls : CollectOne([all_files |-> <<>>, temp |-> EmptyDir, clock |-> 0,
                                   failed |-> 0], ls, n).all_files # <<>>}

RECURSIVE SeqOf(_)
SeqOf(S) == IF S = {} THEN <<>> ELSE LET x == CHOOSE x \in S : TRUE IN <<x>> \o SeqOf(S \ {x})

\* The orders the enumeration of the directory can take
IterOrders(ls) ==
    LET C == Contributing(ls) IN {SeqOf(DOMAIN ls \ C) \o o : o \in Orders(C)}

-----------------------------------------------------------------------------
(* Merge Engine *)

\* The body of the per-item try block of merge_pdfs on the file f:
\* PdfReader(path), the zero-page test, then add_page page by page.
\* state is the outcome of the item, pages what len(reader.pages) gave, n the
\* number of pages of the item that are in the writer afterwards.
ReadItem(f) ==
    IF f.kind # "pdf" \/ ~f.ok THEN [state |-> "SkippedError", pages |-> 0, n |-> 0]
    ELSE IF f.np = 0 THEN [state |-> "SkippedEmpty", pages |-> 0, n |-> 0]
    ELSE IF f.bad = 0 THEN [state |-> "PagesAppended", pages |-> f.np, n |-> f.np]
    ELSE [state |-> "SkippedError", pages |-> f.np, n |-> f.bad - 1]

\* Faulty variant: the pages of an item are put in front of the pages already merged
AddPagesInFront(w, i, n) == [k \in 1..n |-> <<i, k>>] \o w

\* writer.add_page for the first n pages of item i
AddPages(w, i, n) == w \o [k \in 1..n |-> <<i, k>>]

\* Faulty variant: the test for an empty writer is missing
NoPagesUnchecked(w) == FALSE

\* "if len(writer.pages) == 0" after the loop of merge_pdfs
NoPages(w) == Len(w) = 0

\* Faulty variant: the outcome of the write is not looked at
MergeResultUnverified(wr, dirF, out) == "True"

\* The end of merge_pdfs: True when open and write raised nothing and the
\* destination then exists with a size above zero (a document of at least one
\* page); False from the except branch or from the failed verification
MergeResult(wr, dirF, out) ==
    IF wr = "ok" /\ out \in DOMAIN dirF /\ IsFile(dirF[out]) /\ dirF[out].np > 0
    THEN "True"
    ELSE "False"

\* Faulty variant: main does not look at what create_catalog returned
ExitCodeIgnoringResult(success) == 0

\* main: sys.exit(1) when create_catalog returned False, a normal end otherwise
ExitCode(success) == IF success = "True" THEN 0 ELSE 1

\* default output file name of the program
OutputName(v) == IF v = "pdf" THEN catalog_name ELSE fixed_catalog_name

\* Faulty variant: the cover is appended behind the inner pages
BuildPdfOrderCoverLate(cover, inner, back) ==
    inner
    \o (IF cover # None THEN <<cover>> ELSE <<>>)
    \o (IF back # None THEN <<back>> ELSE <<>>)

\* pdf_order of create_catalog
BuildPdfOrder(cover, inner, back) ==
    (IF cover # None THEN <<cover>> ELSE <<>>)
    \o inner
    \o (IF back # None THEN <<back>> ELSE <<>>)

-----------------------------------------------------------------------------
(* Layout Calculator.  Python computes with floats; the model computes the   *)
(* same expressions exactly, a value being the fraction n/d with d > 0.      *)

Rat(n, d) == [n |-> n, d |-> d]
RInt(k) == Rat(k, 1)
RDiv(a, b) == Rat(a.n * b.d, a.d * b.n)      \* a / b for b > 0
RMul(a, b) == Rat(a.n * b.n, a.d * b.d)
RGt(a, b) == a.n * b.d > b.n * a.d
RLeq(a, b) == a.n * b.d <= b.n * a.d
REq(a, b) == a.n * b.d = b.n * a.d
RAdd(a, b) == Rat(a.n * b.d + b.n * a.d, a.d * b.d)
RSub(a, b) == Rat(a.n * b.d - b.n * a.d, a.d * b.d)

\* reportlab.lib.pagesizes.letter, in points
LetterWidth == 612
LetterHeight == 792
\* points per inch: self.margin = margin_inches * 72; margins are taken in
\* steps of half an inch
HalfInch == 36

\* JPGToPDFConverter.calculate_image_size for a converter with the given margin
calculate_image_size_jpg(img_width, img_height, margin) ==
    LET usable_width == RInt(LetterWidth - (2 * margin))
        usable_height == RInt(LetterHeight - (2 * margin))
        img_aspect == RDiv(RInt(img_width), RInt(img_height))
        page_aspect == RDiv(usable_width, usable_height)
    IN IF RGt(img_aspect, page_aspect)
       THEN [pdf_width |-> usable_width, pdf_height |-> RDiv(usable_width, img_aspect)]
       ELSE [pdf_width |-> RMul(usable_height, img_aspect), pdf_height |-> usable_height]

\* Faulty variant: always fits to the width
calculate_image_size_to_width(img_width, img_height, max_width, max_height, maintain_aspect) ==
    IF ~maintain_aspect
    THEN [pdf_width |-> RInt(max_width), pdf_height |-> RInt(max_height)]
    ELSE [pdf_width |-> RInt(max_width),
          pdf_height |-> RDiv(RInt(max_width), RDiv(RInt(img_width), RInt(img_height)))]

\* ImageToPDFConverter.calculate_image_size
calculate_image_size(img_width, img_height, max_width, max_height, maintain_aspect) ==
    IF ~maintain_aspect
    THEN [pdf_width |-> RInt(max_width), pdf_height |-> RInt(max_height)]
    ELSE LET img_aspect == RDiv(RInt(img_width), RInt(img_height))
             max_aspect == RDiv(RInt(max_width), RInt(max_height))
         IN IF RGt(img_aspect, max_aspect)
            THEN [pdf_width |-> RInt(max_width),
                  pdf_height |-> RDiv(RInt(max_width), img_aspect)]
            ELSE [pdf_width |-> RMul(RInt(max_height), img_aspect),
                  pdf_height |-> RInt(max_height)]

\* Faulty variant: the comparison of the aspect ratios is reversed
convert_size_inline_reversed(img_width, img_height, margin) ==
    LET usable_width == RInt(LetterWidth - (2 * margin))
        usable_height == RInt(LetterHeight - (2 * margin))
        img_aspect == RDiv(RInt(img_width), RInt(img_height))
        page_aspect == RDiv(usable_width, usable_height)
    IN IF RGt(page_aspect, img_aspect)
       THEN [pdf_width |-> usable_width, pdf_height |-> RDiv(usable_width, img_aspect)]
       ELSE [pdf_width |-> RMul(usable_height, img_aspect), pdf_height |-> usable_height]

\* The inline size computation of convert_jpg_to_pdf_fixed (both mergers)
convert_size_inline(img_width, img_height, margin) ==
    LET usable_width == RInt(LetterWidth - (2 * margin))
        usable_height == RInt(LetterHeight - (2 * margin))
        img_aspect == RDiv(RInt(img_width), RInt(img_height))
        page_aspect == RDiv(usable_width, usable_height)
    IN IF RGt(img_aspect, page_aspect)
       THEN [pdf_width |-> usable_width, pdf_height |-> RDiv(usable_width, img_aspect)]
       ELSE [pdf_width |-> RMul(usable_height, img_aspect), pdf_height |-> usable_height]

\* Faulty variant: the margin is left out of the position
center_position_no_margin(margin, usable_width, usable_height, pdf_width, pdf_height) ==
    [x |-> RDiv(RSub(RInt(usable_width), pdf_width), RInt(2)),
     y |-> RDiv(RSub(RInt(usable_height), pdf_height), RInt(2))]

\* "Calculate position to center the image": x and y of the lower left corner
center_position(margin, usable_width, usable_height, pdf_width, pdf_height) ==
    [x |-> RAdd(RInt(margin), RDiv(RSub(RInt(usable_width), pdf_width), RInt(2))),
     y |-> RAdd(RInt(margin), RDiv(RSub(RInt(usable_height), pdf_height), RInt(2)))]

\* The layout variable: the arguments of one call, then also its result
LayoutCall(fn, w, h, m, mw, mh, maintain) ==
    [fn |-> fn, done |-> FALSE, img_width |-> w, img_height |-> h, margin |-> m,
     max_width |-> mw, max_height |-> mh, maintain_aspect |-> maintain,
     pdf_width |-> RInt(0), pdf_height |-> RInt(0), x |-> RInt(0), y |-> RInt(0)]

\* the size, then the position computed from it as the caller of the size
\* computation does
LayoutResult(call, size) ==
    LET pos == center_position(call.margin, call.max_width, call.max_height,
                               size.pdf_width, size.pdf_height)
    IN [call EXCEPT !.done = TRUE, !.pdf_width = size.pdf_width,
                    !.pdf_height = size.pdf_height, !.x = pos.x, !.y = pos.y]

NoLayout == LayoutCall("none", 0, 0, 0, 0, 0, FALSE)

\* Margins (in points) with 2 * margin smaller than both page dimensions
Margins == {HalfInch * k : k \in 0..MaxMargin}

-----------------------------------------------------------------------------
(* The page renderers on one image *)

\* size in bytes a written page document must exceed
MinPdfSize == 1000

\* The render variable: one image as the environment presents it to a renderer
\* (which library calls raise, whether the written document is still there and
\* how large it is), then also the outcome of the call.
\*   ret:  "True"/"False" returned, "image" returned by process_image, "raise"
\*   png:  the intermediate PNG: "none", "left" on disk, "deleted"
\*   out:  size of the page document on disk, -1 when there is none
RenderCall(fn, open_ok, exif_ok, png_ok, draw_ok, save_ok, exists, size) ==
    [fn |-> fn, done |-> FALSE, open_ok |-> open_ok, exif_ok |-> exif_ok,
     png_ok |-> png_ok, draw_ok |-> draw_ok, save_ok |-> save_ok,
     exists |-> exists, size |-> size,
     ret |-> "none", rotated |-> FALSE, png |-> "none", out |-> -1]

NoRender == RenderCall("none", FALSE, FALSE, FALSE, FALSE, FALSE, FALSE, 0)

Returned(call, ret, rotated, png, out) ==
    [call EXCEPT !.done = TRUE, !.ret = ret, !.rotated = rotated, !.png = png, !.out = out]

\* Faulty variant: True is returned as soon as the canvas is saved
convert_jpg_to_pdf_unverified(call) ==
    IF ~call.open_ok THEN Returned(call, "False", FALSE, "none", -1)
    ELSE IF ~call.png_ok \/ ~call.draw_ok \/ ~call.save_ok
    THEN Returned(call, "False", call.exif_ok, "left", -1)
    ELSE Returned(call, "True", call.exif_ok, "deleted",
                  IF call.exists THEN call.size ELSE -1)

\* convert_jpg_to_pdf_fixed of both mergers: an error of exif_transpose is
\* swallowed; the PNG is created before img.save and unlinked after c.save; the
\* written document is accepted when it exists and is larger than MinPdfSize
\* (stat of a missing document raises into the outer except)
convert_jpg_to_pdf_fixed(call) ==
    IF ~call.open_ok THEN Returned(call, "False", FALSE, "none", -1)
    ELSE IF ~call.png_ok \/ ~call.draw_ok \/ ~call.save_ok
    THEN Returned(call, "False", call.exif_ok, "left", -1)
    ELSE IF call.exists /\ call.size > MinPdfSize
    THEN Returned(call, "True", call.exif_ok, "deleted", call.size)
    ELSE Returned(call, "False", call.exif_ok, "deleted",
                  IF call.exists THEN call.size ELSE -1)

\* JPGToPDFConverter.convert_image_to_pdf: exif_transpose is inside the one try
\* of the method, so its error ends the call; an error of drawImage or c.save
\* comes after the image was transposed; no PNG, no check of the written
\* document
convert_image_to_pdf(call) ==
    IF ~call.open_ok \/ ~call.exif_ok
    THEN Returned(call, "False", FALSE, "none", -1)
    ELSE IF ~call.draw_ok \/ ~call.save_ok
    THEN Returned(call, "False", TRUE, "none", -1)
    ELSE Returned(call, "True", TRUE, "none", IF call.exists THEN call.size ELSE -1)

\* ImageToPDFConverter.process_image: every exception becomes a ValueError
process_image(call) ==
    IF ~call.open_ok \/ ~call.exif_ok
    THEN Returned(call, "raise", FALSE, "none", -1)
    ELSE Returned(call, "image", TRUE, "none", -1)

Sizes == {MinPdfSize - 1, MinPdfSize, MinPdfSize + 1}

RenderCalls ==
    {RenderCall("fixed", o, e, p, d, s, x, z) :
        o \in BOOLEAN, e \in BOOLEAN, p \in BOOLEAN, d \in BOOLEAN, s \in BOOLEAN,
        x \in BOOLEAN, z \in Sizes}
    \cup {RenderCall("jpg", o, e, TRUE, d, s, x, z) :
        o \in BOOLEAN, e \in BOOLEAN, d \in BOOLEAN, s \in BOOLEAN,
        x \in BOOLEAN, z \in Sizes}
    \cup {RenderCall("image", o, e, TRUE, TRUE, TRUE, FALSE, 0) :
        o \in BOOLEAN, e \in BOOLEAN}

-----------------------------------------------------------------------------
(* ImageToPDFConverter.create_pdf: the loop over image_paths *)

MaxImages == 3

\* int(n ** 0.5)
ISqrt(n) == CHOOSE k \in 0..n : k * k <= n /\ (k + 1) * (k + 1) > n

\* The grid variable: the arguments of one call of create_pdf and the canvas.
\*   images: per image the step of its processing that raises: "none",
\*           "decode" (process_image), "draw" (ImageReader / drawImage),
\*           "caption" (the caption call of the catalog layout)
\*   i:      images of image_paths taken so far
\*   page:   what is drawn on the page under construction
\*   shown:  the pages finished by showPage
GridCall(layout_mode, images_per_page, images) ==
    [layout |-> layout_mode, images_per_page |-> images_per_page, images |-> images,
     i |-> 0, page |-> <<>>, current_page_images |-> 0, shown |-> <<>>, saved |-> FALSE]

NoGrid == GridCall("none", 1, <<>>)

Drawing(k, row, col, caption) ==
    [image |-> k, row |-> row, col |-> col, caption |-> caption]

\* one iteration of the loop of create_pdf: the body of the try and the except
create_pdf_image(g) ==
    LET k == g.i + 1
        f == g.images[k]
        cols == ISqrt(g.images_per_page)
        row == g.current_page_images \div cols
        col == g.current_page_images % cols
        n == g.current_page_images + 1
    IN IF f \in {"decode", "draw"} THEN [g EXCEPT !.i = k]
       ELSE IF g.layout = "single"
       THEN [g EXCEPT !.i = k, !.current_page_images = 0, !.page = <<>>,
                      !.shown = Append(g.shown, Append(g.page, Drawing(k, 0, 0, FALSE)))]
       ELSE IF g.layout = "catalog" /\ f = "caption"
       THEN [g EXCEPT !.i = k, !.page = Append(g.page, Drawing(k, row, col, FALSE))]
       ELSE LET page == Append(g.page, Drawing(k, row, col, g.layout = "catalog"))
            IN IF n >= g.images_per_page
               THEN [g EXCEPT !.i = k, !.current_page_images = 0, !.page = <<>>,
                              !.shown = Append(g.shown, page)]
               ELSE [g EXCEPT !.i = k, !.current_page_images = n, !.page = page]

\* after the loop: showPage when images are counted on the page, then c.save(),
\* which finishes a page that still holds drawings
create_pdf_save(g) ==
    [g EXCEPT !.saved = TRUE, !.page = <<>>, !.current_page_images = 0,
              !.shown = IF g.page # <<>> THEN Append(g.shown, g.page) ELSE g.shown]

ImagesPerPage == {1, 2, 4}

ImageLists(faultKinds) ==
    UNION {[1..n -> faultKinds] : n \in 1..MaxImages}

GridCalls ==
    {GridCall("single", 1, im) : im \in ImageLists({"none", "decode", "draw"})}
    \cup {GridCall("grid", n, im) :
            n \in ImagesPerPage, im \in ImageLists({"none", "decode", "draw"})}
    \cup {GridCall("catalog", n, im) :
            n \in ImagesPerPage, im \in ImageLists({"none", "decode", "draw", "caption"})}

-----------------------------------------------------------------------------
(* The pipeline: main -> create_catalog -> merge_pdfs *)

InitRun(d, v, m, n, k) ==
    /\ variant = v
    /\ sortBy = m
    /\ dirFiles = d
    /\ tempExists = FALSE
    /\ tempFiles = EmptyDir
    /\ clock = FirstClock
    /\ pc = "idle"
    /\ cover_path = None
    /\ back_cover_path = None
    /\ inner_pages = <<>>
    /\ failedConv = 0
    /\ pdf_order = <<>>
    /\ idx = 0
    /\ itemState = <<>>
    /\ writer = <<>>
    /\ writeLog = <<>>
    /\ result = "none"
    /\ exitCode = -1
    /\ runs = 0
    /\ planned = n
    /\ faults = k
    /\ dir0 = d
    /\ hist = <<>>
    /\ layout = NoLayout
    /\ render = NoRender
    /\ grid = NoGrid

Init ==
    \E v \in {"pdf", "fixed"}, m \in {"name", "date"} :
        \E S \in EntrySets : InitRun(DirOf(S), v, m, MaxRuns, MaxFaults)

\* main(): the operator starts a run on the directory
Start ==
    /\ pc \in {"idle", "done"}
    /\ runs < planned
    /\ runs' = runs + 1
    /\ pc' = "find_covers"
    /\ dir0' = dirFiles
    /\ cover_path' = None
    /\ back_cover_path' = None
    /\ inner_pages' = <<>>
    /\ failedConv' = 0
    /\ pdf_order' = <<>>
    /\ idx' = 0
    /\ itemState' = <<>>
    /\ writer' = <<>>
    /\ writeLog' = <<>>
    /\ result' = "none"
    /\ exitCode' = -1
    /\ UNCHANGED <<variant, sortBy, dirFiles, tempExists, tempFiles, clock, planned,
                   faults, hist, layout, render, grid>>

\* find_cover_files / find_or_create_cover_files
FindCoverFiles ==
    /\ pc = "find_covers"
    /\ \E fc \in PickFound(FoundCover(variant, dirFiles, cover_filename)),
          fb \in PickFound(FoundCover(variant, dirFiles, back_cover_filename)),
          okc \in BOOLEAN, okb \in BOOLEAN :
         LET used == (IF fc = None /\ ~okc THEN 1 ELSE 0)
                     + (IF fb = None /\ ~okb THEN 1 ELSE 0)
             r1 == ResolveCover(dirFiles, clock, cover_filename, fc, okc)
             r2 == ResolveCover(r1[2], r1[3], back_cover_filename, fb, okb)
         IN /\ used <= faults
            /\ faults' = faults - used
            /\ cover_path' = r1[1]
            /\ back_cover_path' = r2[1]
            /\ dirFiles' = r2[2]
            /\ clock' = r2[3]
    /\ pc' = "collect"
    /\ UNCHANGED <<variant, sortBy, tempExists, tempFiles, inner_pages, failedConv,
                   pdf_order, idx, itemState, writer, writeLog, result, exitCode, runs,
                   planned, dir0, hist, layout, render, grid>>

\* get_all_files / get_all_files_fixed
GetAllFiles ==
    /\ pc = "collect"
    /\ \E r \in {GetAllFilesResult(dirFiles, tempFiles, clock, sortBy, order) :
                     order \in IterOrders(Listing(dirFiles))} :
         /\ inner_pages' = r.all_files
         /\ tempFiles' = r.temp
         /\ clock' = r.clock
         /\ failedConv' = r.failed
    /\ tempExists' = TRUE
    /\ pc' = "build"
    /\ UNCHANGED <<variant, sortBy, dirFiles, cover_path, back_cover_path, pdf_order,
                   idx, itemState, writer, writeLog, result, exitCode, runs, planned,
                   faults, dir0, hist, layout, render, grid>>

\* create_catalog between get_all_files and merge_pdfs
BuildOrder ==
    /\ pc = "build"
    /\ IF inner_pages = <<>> /\ cover_path = None /\ back_cover_path = None
       THEN /\ result' = "False"
            /\ exitCode' = ExitCode("False")
            /\ pc' = "done"
            /\ hist' = Append(hist, [order |-> <<>>, pages |-> 0, result |-> "False"])
            /\ UNCHANGED <<pdf_order, itemState>>
       ELSE /\ pdf_order' = BuildPdfOrder(cover_path, inner_pages, back_cover_path)
            /\ itemState' = [i \in 1..Len(pdf_order') |-> [state |-> "Pending", pages |-> 0]]
            /\ pc' = "merge"
            /\ UNCHANGED <<result, exitCode, hist>>
    /\ UNCHANGED <<variant, sortBy, dirFiles, tempExists, tempFiles, clock, cover_path,
                   back_cover_path, inner_pages, failedConv, idx, writer, writeLog, runs,
                   planned, faults, dir0, layout, render, grid>>

\* Faulty variant: the loop is left at the first item that raises
MergeItemUntilError ==
    /\ pc = "merge"
    /\ idx < Len(pdf_order)
    /\ LET i == idx + 1
           r == ReadItem(Lookup(dirFiles, tempFiles, pdf_order[i]))
       IN /\ writer' = AddPages(writer, i, r.n)
          /\ itemState' = [itemState EXCEPT ![i] = [state |-> r.state, pages |-> r.pages]]
          /\ idx' = IF r.state = "SkippedError" THEN Len(pdf_order) ELSE i
    /\ UNCHANGED <<variant, sortBy, dirFiles, tempExists, tempFiles, clock, pc,
                   cover_path, back_cover_path, inner_pages, failedConv, pdf_order,
                   writeLog, result, exitCode, runs, planned, faults, dir0, hist, layout, render, grid>>

\* merge_pdfs: one iteration of the loop over pdf_paths
MergeItem ==
    /\ pc = "merge"
    /\ idx < Len(pdf_order)
    /\ LET i == idx + 1
           r == ReadItem(Lookup(dirFiles, tempFiles, pdf_order[i]))
       IN /\ writer' = AddPages(writer, i, r.n)
          /\ itemState' = [itemState EXCEPT ![i] = [state |-> r.state, pages |-> r.pages]]
          /\ idx' = i
    /\ UNCHANGED <<variant, sortBy, dirFiles, tempExists, tempFiles, clock, pc,
                   cover_path, back_cover_path, inner_pages, failedConv, pdf_order,
                   writeLog, result, exitCode, runs, planned, faults, dir0, hist, layout, render, grid>>

\* merge_pdfs after the loop, then the rest of create_catalog and of main.
\* wr is what the file system does to the write of the destination.
MergeFinish ==
    /\ pc = "merge"
    /\ idx = Len(pdf_order)
    /\ LET out == OutputName(variant) IN
       IF NoPages(writer)
       THEN /\ result' = "False"
            /\ UNCHANGED <<dirFiles, tempExists, tempFiles, clock, writeLog, faults>>
       ELSE \E wr \in {"ok", "open_fails", "write_fails"} :
            /\ wr # "ok" => faults > 0
            /\ faults' = IF wr = "ok" THEN faults ELSE faults - 1
            /\ IF wr = "ok" /\ CanWrite(dirFiles, out)
               THEN /\ dirFiles' = (out :> File("pdf", TRUE, Len(writer), 0, "catalog",
                                                clock)) @@ dirFiles
                    /\ clock' = clock + 1
                    /\ writeLog' = Append(writeLog, "ok")
                    /\ result' = MergeResult("ok", dirFiles', out)
                    \* shutil.rmtree(temp_dir) under "if success"
                    /\ tempExists' = IF result' = "True" THEN FALSE ELSE tempExists
                    /\ tempFiles' = IF result' = "True" THEN EmptyDir ELSE tempFiles
               ELSE IF wr = "write_fails" /\ CanWrite(dirFiles, out)
               THEN /\ dirFiles' = (out :> File("pdf", FALSE, 0, 0, "catalog", clock))
                                   @@ dirFiles
                    /\ clock' = clock + 1
                    /\ writeLog' = Append(writeLog, "write_fails")
                    /\ result' = MergeResult("write_fails", dirFiles', out)
                    /\ UNCHANGED <<tempExists, tempFiles>>
               ELSE /\ writeLog' = Append(writeLog, "open_fails")
                    /\ UNCHANGED <<dirFiles, tempExists, tempFiles, clock>>
                    /\ result' = MergeResult("open_fails", dirFiles', out)
    /\ exitCode' = ExitCode(result')
    /\ hist' = Append(hist, [order |-> pdf_order,
                             pages |-> IF result' = "True" THEN Len(writer) ELSE 0,
                             result |-> result'])
    /\ pc' = "done"
    /\ UNCHANGED <<variant, sortBy, cover_path, back_cover_path, inner_pages,
                   failedConv, pdf_order, idx, itemState, writer, runs, planned, dir0,
                   layout, render, grid>>

Next ==
    \/ Start
    \/ FindCoverFiles
    \/ GetAllFiles
    \/ BuildOrder
    \/ MergeItem
    \/ MergeFinish

Spec == Init /\ [][Next]_vars

-----------------------------------------------------------------------------
(* The layout calculators applied to bounded inputs *)

LayoutCalls ==
    {LayoutCall(fn, w, h, m, LetterWidth - 2 * m, LetterHeight - 2 * m, TRUE) :
        fn \in {"jpg", "inline"}, w \in 1..MaxDim, h \in 1..MaxDim, m \in Margins}
    \cup
    {LayoutCall("image", w, h, m, mw, mh, keep) :
        w \in 1..MaxDim, h \in 1..MaxDim, mw \in 1..MaxBox, mh \in 1..MaxBox,
        keep \in BOOLEAN, m \in Margins}

InitLayout ==
    /\ variant = "pdf"
    /\ sortBy = "name"
    /\ dirFiles = EmptyDir
    /\ tempExists = FALSE
    /\ tempFiles = EmptyDir
    /\ clock = FirstClock
    /\ pc = "idle"
    /\ cover_path = None
    /\ back_cover_path = None
    /\ inner_pages = <<>>
    /\ failedConv = 0
    /\ pdf_order = <<>>
    /\ idx = 0
    /\ itemState = <<>>
    /\ writer = <<>>
    /\ writeLog = <<>>
    /\ result = "none"
    /\ exitCode = -1
    /\ runs = 0
    /\ planned = 0
    /\ faults = 0
    /\ dir0 = EmptyDir
    /\ hist = <<>>
    /\ layout \in LayoutCalls
    /\ render = NoRender
    /\ grid = NoGrid

PipelineIdle ==
    UNCHANGED <<variant, sortBy, dirFiles, tempExists, tempFiles, clock, pc, cover_path,
                back_cover_path, inner_pages, failedConv, pdf_order, idx, itemState,
                writer, writeLog, result, exitCode, runs, planned, faults, dir0, hist>>

\* JPGToPDFConverter(margin_inches): calculate_image_size(w, h) and the centering
\* of convert_image_to_pdf
CalcJpg ==
    /\ layout.fn = "jpg" /\ ~layout.done
    /\ layout' = LayoutResult(layout, calculate_image_size_jpg(
                     layout.img_width, layout.img_height, layout.margin))
    /\ PipelineIdle
    /\ UNCHANGED <<render, grid>>

\* ImageToPDFConverter: calculate_image_size(w, h, max_width, max_height,
\* maintain_aspect) and the centering of create_pdf in the single layout, where
\* max_width and max_height are the usable area
CalcImage ==
    /\ layout.fn = "image" /\ ~layout.done
    /\ layout' = LayoutResult(layout, calculate_image_size(
                     layout.img_width, layout.img_height, layout.max_width,
                     layout.max_height, layout.maintain_aspect))
    /\ PipelineIdle
    /\ UNCHANGED <<render, grid>>

\* the size computation and the centering inside convert_jpg_to_pdf_fixed
CalcInline ==
    /\ layout.fn = "inline" /\ ~layout.done
    /\ layout' = LayoutResult(layout, convert_size_inline(
                     layout.img_width, layout.img_height, layout.margin))
    /\ PipelineIdle
    /\ UNCHANGED <<render, grid>>

NextLayout ==
    \/ CalcJpg
    \/ CalcImage
    \/ CalcInline

SpecLayout == InitLayout /\ [][NextLayout]_vars

-----------------------------------------------------------------------------
(* The page renderers applied to one image *)

PipelineAtRest ==
    /\ variant = "pdf"
    /\ sortBy = "name"
    /\ dirFiles = EmptyDir
    /\ tempExists = FALSE
    /\ tempFiles = EmptyDir
    /\ clock = FirstClock
    /\ pc = "idle"
    /\ cover_path = None
    /\ back_cover_path = None
    /\ inner_pages = <<>>
    /\ failedConv = 0
    /\ pdf_order = <<>>
    /\ idx = 0
    /\ itemState = <<>>
    /\ writer = <<>>
    /\ writeLog = <<>>
    /\ result = "none"
    /\ exitCode = -1
    /\ runs = 0
    /\ planned = 0
    /\ faults = 0
    /\ dir0 = EmptyDir
    /\ hist = <<>>

InitRender ==
    /\ PipelineAtRest
    /\ layout = NoLayout
    /\ render \in RenderCalls
    /\ grid = NoGrid

\* PDFCatalogMerger / FixedCatalogMerger: convert_jpg_to_pdf_fixed
ConvertFixed ==
    /\ render.fn = "fixed" /\ ~render.done
    /\ render' = convert_jpg_to_pdf_fixed(render)
    /\ PipelineIdle
    /\ UNCHANGED <<layout, grid>>

\* JPGToPDFConverter: convert_image_to_pdf
ConvertJpg ==
    /\ render.fn = "jpg" /\ ~render.done
    /\ render' = convert_image_to_pdf(render)
    /\ PipelineIdle
    /\ UNCHANGED <<layout, grid>>

\* ImageToPDFConverter: process_image
ProcessImage ==
    /\ render.fn = "image" /\ ~render.done
    /\ render' = process_image(render)
    /\ PipelineIdle
    /\ UNCHANGED <<layout, grid>>

NextRender ==
    \/ ConvertFixed
    \/ ConvertJpg
    \/ ProcessImage

SpecRender == InitRender /\ [][NextRender]_vars

-----------------------------------------------------------------------------
(* create_pdf applied to bounded lists of images *)

InitGrid ==
    /\ PipelineAtRest
    /\ layout = NoLayout
    /\ render = NoRender
    /\ grid \in GridCalls

\* create_pdf: one image of image_paths
CreatePdfImage ==
    /\ ~grid.saved
    /\ grid.i < Len(grid.images)
    /\ grid' = create_pdf_image(grid)
    /\ PipelineIdle
    /\ UNCHANGED <<layout, render>>

\* create_pdf: the end of the loop and c.save()
CreatePdfSave ==
    /\ ~grid.saved
    /\ grid.layout # "none"
    /\ grid.i = Len(grid.images)
    /\ grid' = create_pdf_save(grid)
    /\ PipelineIdle
    /\ UNCHANGED <<layout, render>>

NextGrid ==
    \/ CreatePdfImage
    \/ CreatePdfSave

SpecGrid == InitGrid /\ [][NextGrid]_vars

\* One run on the scenario directories of the testable properties
InitScenario ==
    \E v \in {"pdf", "fixed"}, m \in {"name", "date"} :
        \E d \in ScenarioDirs : InitRun(d, v, m, 1, ScenarioFaults)

SpecScenario == InitScenario /\ [][Next]_vars

-----------------------------------------------------------------------------
(* Properties *)

\* number of covers resolved by the current run
NCovers ==
    (IF cover_path # None THEN 1 ELSE 0) + (IF back_cover_path # None THEN 1 ELSE 0)

Skipped == {"SkippedEmpty", "SkippedError"}
Appended == {i \in 1..Len(itemState) : itemState[i].state = "PagesAppended"}

RECURSIVE SumPages(_)
SumPages(S) ==
    IF S = {} THEN 0
    ELSE LET i == CHOOSE i \in S : TRUE IN itemState[i].pages + SumPages(S \ {i})

WriterPages == {writer[a] : a \in 1..Len(writer)}
OutputFile == dirFiles[OutputName(variant)]
MergeRan == pc = "done" /\ pdf_order # <<>>

\* C1: in the list handed to merge_pdfs the cover, if resolved, is at the first
\* index, the back cover, if resolved, at the last index, and the inner pages
\* lie strictly between them, in both sort modes.
C1_OrderingInvariant ==
    pdf_order # <<>> =>
        LET c == IF cover_path # None THEN 1 ELSE 0
            b == IF back_cover_path # None THEN 1 ELSE 0
            n == Len(pdf_order)
        IN /\ n = c + Len(inner_pages) + b
           /\ (c = 1 => pdf_order[1] = cover_path)
           /\ (b = 1 => pdf_order[n] = back_cover_path)
           /\ \A i \in 1..Len(inner_pages) :
                 /\ pdf_order[c + i] = inner_pages[i]
                 /\ c < c + i
                 /\ c + i < n + 1 - b

C1_Witness ==
    /\ pc = "merge"
    /\ sortBy = "date"
    /\ cover_path # None
    /\ back_cover_path # None
    /\ Len(inner_pages) >= 2
    /\ Len(pdf_order) = Len(inner_pages) + 2

\* C2 (as claimed): after merge_pdfs returned True the catalog has as many
\* pages as the items that ended in PagesAppended have together, a skipped
\* item has no page in it, and every page comes from an item of the list.
C2_PageCountIsSumOfMerged ==
    (pc = "done" /\ result = "True") =>
        /\ OutputFile.np = SumPages(Appended)
        /\ Len(writer) = SumPages(Appended)
        /\ \A q \in WriterPages :
              /\ q[1] \in Appended
              /\ q[2] \in 1..itemState[q[1]].pages

\* C3: the pages of the output are in the order of the source list, all pages
\* of an earlier item before any page of a later one, the pages of one item in
\* that item's order starting with its first page; skipped items change nothing.
C3_ConcatenatesInOrder ==
    /\ \A a, b \in 1..Len(writer) :
          a < b => \/ writer[a][1] < writer[b][1]
                   \/ writer[a][1] = writer[b][1] /\ writer[a][2] < writer[b][2]
    /\ \A a \in 1..Len(writer) :
          IF a > 1 /\ writer[a - 1][1] = writer[a][1]
          THEN writer[a][2] = writer[a - 1][2] + 1
          ELSE writer[a][2] = 1

C3_Witness ==
    /\ pc = "done"
    /\ \E i, j, k \in 1..Len(pdf_order) :
          /\ i < j /\ j < k
          /\ itemState[j].state \in Skipped
          /\ <<i, 2>> \in WriterPages
          /\ <<k, 1>> \in WriterPages

\* C4 (as claimed): every item of the list is processed whatever happened to
\* the items before it, and merge_pdfs returns False for having no pages if and
\* only if no item reached PagesAppended.
C4_FailsIffNothingAppended ==
    MergeRan =>
        /\ \A i \in 1..Len(itemState) : itemState[i].state # "Pending"
        /\ (result = "False" /\ writeLog = <<>>) <=> (Appended = {})

\* C5 (as claimed): no run ends with the temporary conversion directory in place.
C5_TempDirRemoved == pc = "done" => ~tempExists

\* C6 (as claimed): a catalog that an earlier run left in the directory is never
\* one of the inner pages of a run.
C6_OldCatalogExcluded ==
    \A i \in 1..Len(inner_pages) :
        LET p == inner_pages[i] IN
        ~(p.loc = "dir" /\ p.name \in DOMAIN dir0 /\ dir0[p.name].origin = "catalog")

\* C7 (as claimed): five valid images, one corrupt image, no cover files: the
\* run succeeds with exit code 0, the catalog has exactly 5 pages and exactly
\* one item is reported as skipped.
C7_PartialFailureFivePages ==
    (pc = "done" /\ dir0 = PartialDir) =>
        /\ result = "True"
        /\ exitCode = 0
        /\ OutputName(variant) \in DOMAIN dirFiles
        /\ OutputFile.np = 5
        /\ failedConv = 1

\* C7 (amended): in that scenario exactly one conversion is reported as failed
\* and the merged pages are the 5 image pages plus one page per synthesized
\* cover; the run succeeds (exit code 0, catalog of that many pages) unless
\* writing the destination fails, and fails with exit code 1 in that case.
C7_PartialFailureWithCovers ==
    (pc = "done" /\ dir0 = PartialDir) =>
        /\ failedConv = 1
        /\ Len(inner_pages) = 5
        /\ Len(writer) = 5 + NCovers
        /\ IF writeLog = <<"ok">>
           THEN /\ result = "True"
                /\ exitCode = 0
                /\ OutputFile.np = 5 + NCovers
           ELSE /\ result = "False"
                /\ exitCode = 1

C7_Witness ==
    /\ pc = "done"
    /\ dir0 = PartialDir
    /\ result = "True"
    /\ NCovers = 2
    /\ OutputFile.np = 7

\* C8 (as claimed): only corrupt or unreadable files and no cover files: the run
\* ends with create_catalog False, a non-zero exit, and no output file.
C8_TotalFailureNoOutput ==
    (pc = "done" /\ dir0 \in {CorruptImageDir, CorruptDir}) =>
        /\ result = "False"
        /\ exitCode # 0
        /\ OutputName(variant) \notin DOMAIN dirFiles

\* C8 (amended): in that scenario the merged pages are exactly the pages of the
\* synthesized covers; the run ends with create_catalog False, exit code 1 and
\* no write of the destination exactly when neither cover could be synthesized,
\* and succeeds with a catalog of one page per synthesized cover when the
\* destination is written.
C8_TotalFailureUnlessCovers ==
    (pc = "done" /\ dir0 \in {CorruptImageDir, CorruptDir}) =>
        /\ Len(writer) = NCovers
        /\ (NCovers = 0) <=> (result = "False" /\ writeLog = <<>>)
        /\ NCovers = 0 => /\ exitCode = 1
                          /\ OutputName(variant) \notin DOMAIN dirFiles
        /\ writeLog = <<"ok">> => /\ result = "True"
                                  /\ exitCode = 0
                                  /\ OutputFile.np = NCovers
        /\ result = "True" => writeLog = <<"ok">>

C8_Witness ==
    /\ pc = "done"
    /\ dir0 = CorruptDir
    /\ NCovers = 0
    /\ result = "False"
    /\ itemState # <<>>

\* the draw size of the last computation, and the area it had to fit
DrawW == layout.pdf_width
DrawH == layout.pdf_height
UsableW == RInt(layout.max_width)
UsableH == RInt(layout.max_height)
ImgW == RInt(layout.img_width)
ImgH == RInt(layout.img_height)
Wider == RGt(RDiv(ImgW, ImgH), RDiv(UsableW, UsableH))

FitsAndKeepsAspect ==
    /\ RLeq(DrawW, UsableW)
    /\ RLeq(DrawH, UsableH)
    /\ REq(RMul(DrawW, ImgH), RMul(DrawH, ImgW))

\* C9 (as claimed): every computed draw size is within the usable area and has
\* the aspect ratio of the image.
C9_DrawSizeFitsAndKeepsAspect == layout.done => FitsAndKeepsAspect

\* C9 (amended): every draw size computed with maintain_aspect set (the default
\* of ImageToPDFConverter; the other two computations have no such switch) is
\* within the usable area and has the aspect ratio of the image.
C9_DrawSizeWithMaintainAspect ==
    (layout.done /\ layout.maintain_aspect) => FitsAndKeepsAspect

C9_Witness ==
    /\ layout.done
    /\ layout.fn = "image"
    /\ layout.maintain_aspect
    /\ ~REq(DrawW, UsableW)
    /\ REq(DrawH, UsableH)

\* C10: the calculator fits to the usable width when the image is relatively
\* wider than the usable area and to the usable height otherwise, so that the
\* result is within the area and touches it in at least one dimension.
C10_MaximalFit ==
    (layout.done /\ layout.fn \in {"jpg", "inline"}) =>
        /\ Wider => /\ REq(DrawW, UsableW)
                    /\ REq(DrawH, RDiv(RMul(UsableW, ImgH), ImgW))
        /\ ~Wider => /\ REq(DrawH, UsableH)
                     /\ REq(DrawW, RDiv(RMul(UsableH, ImgW), ImgH))
        /\ REq(DrawW, UsableW) \/ REq(DrawH, UsableH)
        /\ RLeq(DrawW, UsableW) /\ RLeq(DrawH, UsableH)

C10_Witness ==
    /\ layout.done
    /\ layout.fn = "inline"
    /\ Wider
    /\ REq(DrawW, UsableW)
    /\ ~REq(DrawH, UsableH)

\* C11: the placement rectangle is centered in the usable area and contained
\* in it: x = margin + (usableW - drawW)/2, y = margin + (usableH - drawH)/2,
\* margin <= x, x + drawW <= pageW - margin, margin <= y, y + drawH <= pageH - margin.
C11_CenteredAndContained ==
    layout.done =>
        LET m == RInt(layout.margin)
            two == RInt(2)
        IN /\ REq(RMul(RSub(layout.x, m), two), RSub(UsableW, DrawW))
           /\ REq(RMul(RSub(layout.y, m), two), RSub(UsableH, DrawH))
           /\ RLeq(m, layout.x)
           /\ RLeq(RAdd(layout.x, DrawW), RAdd(m, UsableW))
           /\ RLeq(m, layout.y)
           /\ RLeq(RAdd(layout.y, DrawH), RAdd(m, UsableH))

C11_Witness ==
    /\ layout.done
    /\ layout.fn = "jpg"
    /\ layout.margin > 0
    /\ RGt(layout.x, RInt(layout.margin))
    /\ REq(layout.y, RInt(layout.margin))
    /\ RGt(RAdd(RInt(layout.margin), UsableW), RAdd(layout.x, DrawW))

\* C12: merge_pdfs writes the destination at most once per call and only after
\* the last item has been processed, exactly once whenever the writer holds a
\* page; it returns True only if that write went through and the destination
\* then exists and holds the merged document; a failed open or write gives False.
C12_WrittenOnceAtTheEnd ==
    /\ Len(writeLog) <= 1
    /\ pc \in {"find_covers", "collect", "build", "merge"} => writeLog = <<>>
    /\ writeLog # <<>> => idx = Len(pdf_order) /\ pc = "done"
    /\ (MergeRan /\ Len(writer) > 0) => Len(writeLog) = 1
    /\ result = "True" =>
          /\ writeLog = <<"ok">>
          /\ OutputName(variant) \in DOMAIN dirFiles
          /\ OutputFile.origin = "catalog"
          /\ OutputFile.ok
          /\ OutputFile.np = Len(writer)
          /\ OutputFile.np > 0
    /\ (pc = "done" /\ writeLog # <<"ok">>) => result = "False"

C12_Witness ==
    /\ pc = "done"
    /\ Len(pdf_order) >= 3
    /\ idx = Len(pdf_order)
    /\ writeLog = <<"ok">>
    /\ result = "True"
    /\ OutputFile.np = Len(writer)

\* get_all_files has returned: the directory is as the collector saw it
Collected == pc = "build"
Range(q) == {q[i] : i \in 1..Len(q)}
IsCoverName(n) == Lower(n) \in {Lower(cover_filename), Lower(back_cover_filename)}
ImageEntries ==
    {n \in DOMAIN dirFiles : /\ IsFile(dirFiles[n])
                             /\ ~IsCoverName(n)
                             /\ Lower(Suffix(n)) \in {DotJpg, DotJpeg}}
FailedImages == {n \in ImageEntries : ~(dirFiles[n].kind = "image" /\ dirFiles[n].ok)}
PdfEntries ==
    {n \in DOMAIN dirFiles : /\ IsFile(dirFiles[n])
                             /\ ~IsCoverName(n)
                             /\ Lower(Suffix(n)) = DotPdf}
ConvertedPath(n) == TempPath(Stem(n) \o DotPdf)

\* create_catalog found neither an inner page nor a cover
NothingFound == inner_pages = <<>> /\ NCovers = 0

\* what get_all_files returned after failed conversions: the failed images are
\* counted and not listed, everything else of the directory is listed
FailuresArePerItem ==
    Collected =>
        LET failed == FailedImages
            valid == ImageEntries \ failed
            listed == Range(inner_pages)
        IN /\ failedConv = Cardinality(failed)
           /\ \A n \in failed :
                 (\A g \in valid : Stem(g) # Stem(n)) => ConvertedPath(n) \notin listed
           /\ \A n \in valid : ConvertedPath(n) \in listed
           /\ \A n \in PdfEntries : DirPath(n) \in listed

\* merge_pdfs was called and went through its whole list
MergedAll ==
    /\ MergeRan
    /\ idx = Len(pdf_order)
    /\ \A i \in 1..Len(itemState) : itemState[i].state # "Pending"

\* C13 (as claimed): a failed conversion is counted and puts no entry into the
\* list of get_all_files, every other image and document of the directory is
\* still in the list, and every run with a failed conversion goes on to the
\* merge.
C13_ConversionFailureNotFatal ==
    /\ FailuresArePerItem
    /\ (pc = "done" /\ failedConv > 0) => MergedAll

\* C13 (amended): as claimed, except that the run goes on to the merge only
\* when the list or a cover gives it something to merge; with no inner page
\* and no cover it ends before the merge.
C13_NotFatalUnlessNothingLeft ==
    /\ FailuresArePerItem
    /\ (pc = "done" /\ failedConv > 0) =>
          IF NothingFound THEN ~MergeRan /\ result = "False" ELSE MergedAll

C13_Witness ==
    /\ pc = "merge"
    /\ idx = Len(pdf_order)
    /\ failedConv = 1
    /\ \E n \in ImageEntries \ FailedImages : ConvertedPath(n) \in Range(inner_pages)
    /\ Len(writer) = Len(pdf_order)

\* the files of the directory, at the start of the run, that match the
\* convention name conv without regard to case
ConventionMatches(conv) == {n \in DOMAIN dir0 : IsFile(dir0[n]) /\ Lower(n) = Lower(conv)}

\* the cover the resolver returned for the convention name conv is as C14 says
ResolvedAsSpecified(conv, path) ==
    IF ConventionMatches(conv) # {}
    THEN /\ path \in {DirPath(n) : n \in ConventionMatches(conv)}
         /\ \A n \in DOMAIN dirFiles :
               Lower(n) = Lower(conv) => n \in DOMAIN dir0 /\ dirFiles[n] = dir0[n]
    ELSE \/ /\ path = DirPath(conv)
            /\ conv \in DOMAIN dirFiles
            /\ dirFiles[conv].origin = "synth"
         \/ /\ path = None
            /\ conv \notin DOMAIN dirFiles

\* C14 (as claimed): for each of the two covers an existing file whose name
\* matches without regard to case is returned and nothing is synthesized;
\* otherwise the synthesized cover is returned, or None when the synthesis
\* failed, and the run goes on.
C14_CoverResolver ==
    Collected =>
        /\ ResolvedAsSpecified(cover_filename, cover_path)
        /\ ResolvedAsSpecified(back_cover_filename, back_cover_path)

\* C15: no file with a cover name is an inner page; an image contributes only
\* the page converted from it, a document contributes itself, and nothing else
\* (other extensions, directories) contributes: the inner pages are exactly
\* the documents of the directory and the conversions of its valid images.
C15_Classification ==
    Collected =>
        LET pdfs == PdfEntries
            converted == {ConvertedPath(n) : n \in ImageEntries \ FailedImages}
            listed == Range(inner_pages)
        IN /\ \A p \in listed :
                 \/ p.loc = "dir" /\ p.name \in pdfs
                 \/ p.loc = "temp" /\ p \in converted
           /\ \A p \in listed :
                 p.loc = "dir" => /\ ~IsCoverName(p.name)
                                  /\ Lower(Suffix(p.name)) \notin {DotJpg, DotJpeg}
                                  /\ IsFile(dirFiles[p.name])
           /\ Len(inner_pages) = Cardinality(pdfs)
                                 + Cardinality(ImageEntries \ FailedImages)

C15_Witness ==
    /\ Collected
    /\ Len(inner_pages) = 2
    /\ \E n \in PdfEntries : DirPath(n) \in Range(inner_pages)
    /\ \E n \in ImageEntries : ConvertedPath(n) \in Range(inner_pages)
    /\ \E n \in DOMAIN dirFiles : IsCoverName(n) /\ DirPath(n) \notin Range(inner_pages)

\* C16 (as claimed): no path occurs more than once in the ordered list of the
\* Source Collector.
C16_NoDuplicatePath ==
    \A i, j \in 1..Len(inner_pages) : i # j => inner_pages[i] # inner_pages[j]

\* C17 (as claimed): a second call of get_all_files on the directory as the
\* first call left it, with the same sort mode, returns the list the first call
\* returned, whatever order the enumeration of the directory takes.
C17_CollectorIdempotent ==
    Collected =>
        \A order \in IterOrders(Listing(dirFiles)) :
            GetAllFilesResult(dirFiles, tempFiles, clock, sortBy, order).all_files
                = inner_pages

\* how often the path p occurs in the list q
Occurrences(p, q) == Cardinality({i \in 1..Len(q) : q[i] = p})

\* C18: in mode name the inner pages are in non-decreasing order of their
\* lower-cased file names, in mode date in non-decreasing order of the creation
\* times of the listed files, and the list holds every collected item as often
\* as it was collected and nothing else.
C18_SortedPermutation ==
    Collected =>
        LET pdfs == {DirPath(n) : n \in PdfEntries}
            valid == ImageEntries \ FailedImages
            sources(p) == (IF p \in pdfs THEN 1 ELSE 0)
                          + Cardinality({n \in valid : ConvertedPath(n) = p})
            key == [i \in 1..Len(inner_pages) |->
                       IF sortBy = "name" THEN Lower(inner_pages[i].name)
                       ELSE Lookup(dirFiles, tempFiles, inner_pages[i]).ctime]
        IN /\ \A i, j \in 1..Len(inner_pages) :
                 i < j => IF sortBy = "name" THEN ~StrLess(key[j], key[i])
                          ELSE key[i] <= key[j]
           /\ \A p \in Range(inner_pages) : Occurrences(p, inner_pages) = sources(p)
           /\ \A p \in pdfs : Occurrences(p, inner_pages) = 1
           /\ \A n \in valid :
                 Occurrences(ConvertedPath(n), inner_pages) = sources(ConvertedPath(n))

C18_Witness ==
    /\ Collected
    /\ sortBy = "date"
    /\ Len(inner_pages) = 2
    /\ StrLess(Lower(inner_pages[2].name), Lower(inner_pages[1].name))
    /\ Lookup(dirFiles, tempFiles, inner_pages[1]).ctime
          < Lookup(dirFiles, tempFiles, inner_pages[2]).ctime

\* C19 (as claimed): a document that does not open directly but opens once it
\* has been re-serialized ends in PagesAppended with its original page count;
\* only a document beyond repair ends in SkippedError for not opening.
C19_SanitizeFallback ==
    MergeRan =>
        \A i \in 1..Len(pdf_order) :
            LET f == Lookup(dirFiles, tempFiles, pdf_order[i]) IN
            (f.kind = "pdf" /\ f.origin = "user" /\ ~f.ok /\ f.np > 0) =>
                /\ itemState[i].state = "PagesAppended"
                /\ itemState[i].pages = f.np
                /\ \A k \in 1..f.np : <<i, k>> \in WriterPages

ZeroPagesMerged == MergeRan /\ Len(writer) = 0
WriteFailed == writeLog \in {<<"open_fails">>, <<"write_fails">>}

\* C20 (as claimed): a completed run returns False and exits non-zero when no
\* inner page and no cover was found or when the merge produced zero pages,
\* and returns True and exits 0 in every other case.
C20_FatalConditions ==
    pc = "done" =>
        IF NothingFound \/ ZeroPagesMerged
        THEN result = "False" /\ exitCode # 0
        ELSE result = "True" /\ exitCode = 0

\* C20 (amended): a completed run returns False and exits with code 1 when no
\* inner page and no cover was found, when the merge produced zero pages, or
\* when the destination could not be written, and returns True and exits 0 in
\* every other case.
C20_FatalConditionsAndWrite ==
    pc = "done" =>
        IF NothingFound \/ ZeroPagesMerged \/ WriteFailed
        THEN result = "False" /\ exitCode = 1
        ELSE result = "True" /\ exitCode = 0

C20_Witness ==
    /\ pc = "done"
    /\ ~NothingFound
    /\ Len(writer) > 0
    /\ writeLog = <<"write_fails">>
    /\ result = "False"
    /\ exitCode = 1

\* C21 (as claimed): once merge_pdfs has written the destination, every file
\* of the directory in the list handed to it is as it was when it was
\* collected, and the destination is none of them.
C21_SourcesNotMutated ==
    (pc = "done" /\ writeLog = <<"ok">>) =>
        \A i \in 1..Len(pdf_order) :
            LET p == pdf_order[i] IN
            p.loc = "dir" =>
                /\ p # DirPath(OutputName(variant))
                /\ p.name \in DOMAIN dirFiles
                /\ IF p.name \in DOMAIN dir0
                   THEN dirFiles[p.name] = dir0[p.name]
                   ELSE dirFiles[p.name].origin = "synth"

Terminal == {"PagesAppended", "SkippedEmpty", "SkippedError"}

\* the items before the loop position are finished, the others untouched
ItemsInOrder ==
    /\ idx <= Len(pdf_order)
    /\ pc \in {"merge", "done"} => Len(itemState) = Len(pdf_order)
    /\ \A i \in 1..Len(itemState) :
          IF i <= idx THEN itemState[i].state \in Terminal
          ELSE itemState[i].state = "Pending"
    /\ writeLog # <<>> => \A i \in 1..Len(itemState) : itemState[i].state \in Terminal

\* one step of a call of merge_pdfs changes at most the next item of the list,
\* from Pending to a terminal state
ItemStep ==
    runs' = runs =>
        \A i \in 1..Len(itemState) :
            /\ i <= Len(itemState')
            /\ itemState[i].state \in Terminal => itemState'[i] = itemState[i]
            /\ itemState'[i] # itemState[i] =>
                  /\ itemState[i].state = "Pending"
                  /\ itemState'[i].state \in Terminal
                  /\ i = idx + 1
                  /\ idx' = i
                  /\ \A j \in 1..Len(itemState) : j # i => itemState'[j] = itemState[j]

\* C22: merge_pdfs takes the items of the list in order, one at a time; each
\* item goes from Pending to exactly one of PagesAppended, SkippedEmpty and
\* SkippedError, once; none is Pending when the output is written and a
\* terminal state never changes during the call.
C22_ItemStateMachine == []ItemsInOrder /\ [][ItemStep]_vars

C22_Witness ==
    /\ pc = "done"
    /\ writeLog = <<"ok">>
    /\ \A t \in Terminal : \E i \in 1..Len(itemState) : itemState[i].state = t
    /\ \E i, j \in 1..Len(itemState) :
          i < j /\ itemState[i].state \in Skipped /\ itemState[j].state = "PagesAppended"

\* C23: convert_jpg_to_pdf_fixed returns True only when the written page
\* document exists and is larger than 1000 bytes; with a document of at most
\* 1000 bytes, or none, it returns False, and no exception leaves the call.
C23_MinimumSizeCheck ==
    (render.done /\ render.fn = "fixed") =>
        /\ render.ret \in {"True", "False"}
        /\ render.ret = "True" => (render.out # -1 /\ render.out > 1000)
        /\ (render.out = -1 \/ render.out <= 1000) => render.ret = "False"

C23_Witness ==
    /\ render.done /\ render.fn = "fixed"
    /\ render.open_ok /\ render.png_ok /\ render.draw_ok /\ render.save_ok
    /\ render.out = 1000
    /\ render.ret = "False"

\* an image whose only fault is that exif_transpose raises
OnlyExifFails ==
    /\ render.open_ok /\ ~render.exif_ok
    /\ render.png_ok /\ render.draw_ok /\ render.save_ok
    /\ render.fn = "image" \/ (render.exists /\ render.size > 1000)

\* C24 (as claimed): in every page renderer an error of reading or applying the
\* EXIF orientation is not fatal: the call succeeds with the image un-rotated.
C24_ExifFailureNotFatal ==
    (render.done /\ OnlyExifFails) =>
        /\ render.ret \in {"True", "image"}
        /\ ~render.rotated

\* C25 (as claimed): two different images of the directory that are converted
\* are rendered to two different page documents of the temporary directory, so
\* that no conversion overwrites the page of another.
C25_DistinctRenderedPages ==
    Collected =>
        LET valid == ImageEntries \ FailedImages
        IN \A m, n \in valid : m # n => ConvertedPath(m) # ConvertedPath(n)

\* C26 (as claimed): every further run on the same directory, with the same
\* output name and sort mode and without any I/O fault, yields a catalog with
\* the page count and the source sequence of the first run.
C26_RepeatedRunsStable ==
    faults = MaxFaults =>
        \A i \in 2..Len(hist) :
            /\ hist[i].order = hist[1].order
            /\ hist[i].pages = hist[1].pages

\* C27 (as claimed): when create_catalog has finished, the input directory
\* holds the files it held before the run, unchanged, and at most the output
\* catalog in addition: no synthesized cover, no rendered page and no
\* temporary directory is left.
C27_DirectoryRestored ==
    pc = "done" =>
        /\ ~tempExists
        /\ \A n \in DOMAIN dirFiles :
              \/ n = OutputName(variant)
              \/ n \in DOMAIN dir0 /\ dirFiles[n] = dir0[n]
        /\ \A n \in DOMAIN dir0 : n \in DOMAIN dirFiles

\* C28 (as claimed): every .pdf file the input directory held before the run is
\* exactly once in the list handed to merge_pdfs, as cover, back cover or
\* inner page.
C28_NoDocumentDropped ==
    pc = "merge" =>
        \A n \in DOMAIN dir0 :
            (IsFile(dir0[n]) /\ Lower(Suffix(n)) = DotPdf) =>
                Occurrences(DirPath(n), pdf_order) = 1

\* C29 (as claimed): an image whose processing in create_pdf raises, at
\* whatever step, leaves the page under construction, the finished pages and
\* the counter current_page_images as they were before that image.
C29_SkipIsAtomic ==
    [][(/\ grid.i < Len(grid.images)
        /\ grid'.i = grid.i + 1
        /\ grid.images[grid.i + 1] # "none")
       => /\ grid'.page = grid.page
          /\ grid'.shown = grid.shown
          /\ grid'.current_page_images = grid.current_page_images]_vars

\* C30 (as claimed): the intermediate PNG of convert_jpg_to_pdf_fixed is
\* deleted on every return path of the call.
C30_PngDeleted ==
    (render.done /\ render.fn = "fixed") => render.png # "left"

====
